---- MODULE Spec2Model ----
(***************************************************************************)
(* Lab allocation engine of gs_lab_allocation (website/allocation_         *)
(* algorithm.py) and the views that write Assignment records               *)
(* (website/views.py), as a state machine over the Django tables.          *)
(*                                                                         *)
(* Tables: Lab (rows with the `assigned` flag), Student, SpecialRequest,   *)
(* TeachingPreference, AllocationWeights, Assignment (a bag of records).   *)
(* A run of allocation_algorithm is split where it touches the database:   *)
(* start (clear, read, setup errors), the trials (in memory), the          *)
(* computation of the new assignments, and one step per record saved.      *)
(***************************************************************************)
EXTENDS Integers, Sequences, FiniteSets, Bags, TLC

(***************************************************************************)
(* Bounds of the model.                                                    *)
(***************************************************************************)
\* largest permutation_count drawn for AllocationWeights
MaxTrials == 2
\* largest lab_load drawn for a Student
MaxLoad == 3
\* the largest absolute value of past_assignments_weight compared
MaxPastWeight == 2

(***************************************************************************)
(* Generic helpers.                                                        *)
(***************************************************************************)
Range(s) == {s[i] : i \in 1..Len(s)}

RECURSIVE SeqOfSet(_)
\* some enumeration of a finite set (CHOOSE is deterministic in TLC)
SeqOfSet(S) == IF S = {} THEN <<>>
               ELSE LET x == CHOOSE y \in S : TRUE IN <<x>> \o SeqOfSet(S \ {x})

\* all orderings of a finite set, as sequences
Perms(S) == {p \in [1..Cardinality(S) -> S] : Range(p) = S}

\* the subsequence of s whose elements satisfy Test
FilterSeq(s, Test(_)) == SelectSeq(s, Test)

\* s with its first occurrence of x removed
RECURSIVE RemoveFirst(_, _)
RemoveFirst(s, x) == IF s = <<>> THEN <<>>
                     ELSE IF Head(s) = x THEN Tail(s)
                     ELSE <<Head(s)>> \o RemoveFirst(Tail(s), x)

RECURSIVE SumSeq(_)
SumSeq(s) == IF s = <<>> THEN 0 ELSE Head(s) + SumSeq(Tail(s))

\* the element of a one-element set.  TheOne({F(x) : x \in {e}}) is F(e)
\* with e evaluated once, whatever the number of uses F makes of x.
TheOne(S) == CHOOSE x \in S : TRUE

(***************************************************************************)
(* The tables' value spaces.                                               *)
(***************************************************************************)
Students == {"s1", "s2"}
\* Student rows in primary-key order (the order of Student.objects.filter)
StudentOrder == <<"s1", "s2">>
\* Assignment.student is nullable (on_delete=SET_NULL)
NoStudent == "null"
Holders == Students \cup {NoStudent}

Courses == {"c1", "c2"}
CourseOrder == <<"c1", "c2">>

\* Course.hours and Course.weeks, read by the workload penalty
Course == [c \in Courses |->
             IF c = "c1" THEN [hours |-> 2, weeks |-> 1]
                         ELSE [hours |-> 3, weeks |-> 1]]

\* a Lab.time string "hhmm-hhmm", as the sequence of its characters
TimeStr(a, b, c, d, e, f, g, h) == <<a, b, c, d, "-", e, f, g, h>>
T1000_1200 == TimeStr("1","0","0","0", "1","2","0","0")
T1100_1300 == TimeStr("1","1","0","0", "1","3","0","0")
T1200_1400 == TimeStr("1","2","0","0", "1","4","0","0")
T1400_1600 == TimeStr("1","4","0","0", "1","6","0","0")
T1500_1700 == TimeStr("1","5","0","0", "1","7","0","0")

LabRow(c, g, d, t, v, w) ==
    [code |-> c, group |-> g, day |-> d, time |-> t, venue |-> v,
     teaching_week |-> w, assigned |-> FALSE]

\* Timetable with odd/even week groups: g1 and g3 run in odd weeks, g2 in
\* even weeks, all three in the same slot; c2/g1 clashes with all of them.
LabsPairs ==
    << LabRow("c1", "g1", "MON", T1000_1200, "v1", <<1, 3>>),
       LabRow("c1", "g2", "MON", T1000_1200, "v1", <<2, 4>>),
       LabRow("c1", "g3", "MON", T1000_1200, "v2", <<1, 3>>),
       LabRow("c2", "g1", "MON", T1100_1300, "v1", <<1, 2>>) >>

\* Timetable with groups of several rows: c1/g1 meets on two days, c2/g1
\* meets in two venues in the same slot, c1/g2 starts when c1/g1 ends.
LabsMulti ==
    << LabRow("c1", "g1", "MON", T1000_1200, "v1", <<1, 3>>),
       LabRow("c1", "g1", "TUE", T1000_1200, "v1", <<1, 3>>),
       LabRow("c1", "g2", "MON", T1200_1400, "v1", <<1, 2>>),
       LabRow("c2", "g1", "WED", T1400_1600, "v1", <<2, 4>>),
       LabRow("c2", "g1", "WED", T1400_1600, "v2", <<2, 4>>),
       LabRow("c2", "g2", "WED", T1500_1700, "v1", <<4>>) >>

Timetables == {LabsPairs, LabsMulti}

\* Timetable with a group whose rows differ in their weeks: c1/g1 meets in
\* venue v1 in odd weeks and in venue v2 in even weeks, in the slot of c1/g2.
LabsSplitWeeks ==
    << LabRow("c1", "g1", "MON", T1000_1200, "v1", <<1, 3>>),
       LabRow("c1", "g1", "MON", T1000_1200, "v2", <<2, 4>>),
       LabRow("c1", "g2", "MON", T1000_1200, "v1", <<2, 4>>),
       LabRow("c2", "g1", "MON", T1100_1300, "v1", <<1, 3>>) >>

(***************************************************************************)
(* State.                                                                  *)
(***************************************************************************)
VARIABLES
    \* ---- the database ----
    Lab,                 \* Lab table: sequence of rows, a row's id is its index
    Student,             \* Student table: [gs_duty, lab_load, past_assignments]
    SpecialRequest,      \* at most one SpecialRequest per student
    TeachingPreference,  \* sequence of [student, course, ranking]
    AllocationWeights,   \* the singleton weights row
    Assignment,          \* Assignment table: a bag of [course_lab, student]
    \* ---- one call of allocation_algorithm ----
    pc,                  \* position of the call
    clear_existing,      \* the call's parameter
    lab_groups,          \* keys of the available groups, in dict order
    students_with_capacity,   \* sorted list of students
    base_student_assignments, \* student -> list of group keys
    trial,               \* trials completed
    working_lab_groups,  \* the trial's copy of lab_groups
    current_assignments, \* the trial's student -> list of group keys
    best_solution,       \* [assignments, penalty_score]
    new_assignments,     \* (student, lab) pairs still to be saved
    greedy_i,            \* index of the next student of greedy_allocation
    outcome,             \* how the last call ended
    \* ---- find_odd_even_pairs on its own ----
    arg_course_labs,     \* an argument list of find_odd_even_pairs
    ret_pairs,           \* the list it returned
    \* ---- history ----
    before,              \* Assignment and Lab as they were when the call began
    log,                 \* the assignment attempts of the last trial step
    scored               \* the solution and the score of each trial of the call

dbVars == <<Lab, Student, SpecialRequest, TeachingPreference,
            AllocationWeights, Assignment>>
runVars == <<pc, clear_existing, lab_groups, students_with_capacity,
             base_student_assignments, trial, working_lab_groups,
             current_assignments, best_solution, new_assignments, greedy_i,
             outcome>>
fnVars == <<arg_course_labs, ret_pairs>>
histVars == <<before, log, scored>>
vars == <<dbVars, runVars, fnVars, histVars>>

(***************************************************************************)
(* 4.1 Time primitives: parse_time and the comparisons made on its result. *)
(***************************************************************************)
DigitVal == ("0" :> 0) @@ ("1" :> 1) @@ ("2" :> 2) @@ ("3" :> 3) @@ ("4" :> 4)
            @@ ("5" :> 5) @@ ("6" :> 6) @@ ("7" :> 7) @@ ("8" :> 8) @@ ("9" :> 9)

RECURSIVE IntOf(_)
\* int(str) of a string of decimal digits
IntOf(chars) == IF chars = <<>> THEN 0
                ELSE 10 * IntOf(SubSeq(chars, 1, Len(chars) - 1))
                     + DigitVal[chars[Len(chars)]]

\* time_str.split('-') of a string holding one '-'
SplitDash(time_str) ==
    LET i == CHOOSE j \in 1..Len(time_str) : time_str[j] = "-"
    IN  <<SubSeq(time_str, 1, i - 1), SubSeq(time_str, i + 1, Len(time_str))>>

\* ((start_hour, start_minute), (end_hour, end_minute))
parse_time(time_str) ==
    LET parts     == SplitDash(time_str)
        start_str == parts[1]
        end_str   == parts[2]
    IN  << <<IntOf(SubSeq(start_str, 1, 2)), IntOf(SubSeq(start_str, 3, Len(start_str)))>>,
           <<IntOf(SubSeq(end_str, 1, 2)), IntOf(SubSeq(end_str, 3, Len(end_str)))>> >>

\* Python's a < b on (hour, minute) tuples
TupleLess(a, b) == a[1] < b[1] \/ (a[1] = b[1] /\ a[2] < b[2])

\* lab_start < assigned_end and lab_end > assigned_start
TimesOverlap(t1, t2) ==
    LET a == parse_time(t1)
        b == parse_time(t2)
    IN  TupleLess(a[1], b[2]) /\ TupleLess(b[1], a[2])

\* any(week in assigned_lab.teaching_week for week in lab.teaching_week)
WeeksOverlap(w1, w2) == \E i \in 1..Len(w1) : w1[i] \in Range(w2)

\* the clash test between two Lab rows
RowsClash(l1, l2) ==
    /\ l1.day = l2.day
    /\ TimesOverlap(l1.time, l2.time)
    /\ WeeksOverlap(l1.teaching_week, l2.teaching_week)

AllOdd(weeks)  == \A i \in 1..Len(weeks) : weeks[i] % 2 = 1
AllEven(weeks) == \A i \in 1..Len(weeks) : weeks[i] % 2 = 0

(***************************************************************************)
(* 4.2 Grouping: group_labs_by_course_and_group.                           *)
(***************************************************************************)
LabIds == 1..Len(Lab)
KeyOf(id) == <<Lab[id].code, Lab[id].group>>

\* lab_groups[key]: the ids of the rows of the group, in table order
GroupRows(key) ==
    LET Is(id) == KeyOf(id) = key
    IN  SelectSeq([i \in 1..Len(Lab) |-> i], Is)

\* the keys of the dict, in insertion order (first row of each group)
group_labs_by_course_and_group ==
    LET First(id) == \A j \in 1..(id - 1) : KeyOf(j) # KeyOf(id)
        firsts    == SelectSeq([i \in 1..Len(Lab) |-> i], First)
    IN  [i \in 1..Len(firsts) |-> KeyOf(firsts[i])]

AllKeys == Range(group_labs_by_course_and_group)

\* the rows of a list of groups, flattened (for lab_group in ...: for lab in lab_group)
RECURSIVE RowsOfGroups(_)
RowsOfGroups(groups) ==
    IF groups = <<>> THEN <<>>
    ELSE GroupRows(Head(groups)) \o RowsOfGroups(Tail(groups))

(***************************************************************************)
(* 4.3 Constraint checker.                                                 *)
(***************************************************************************)
\* SpecialRequest.objects.get(student=student, availability_approved=True)
\* finds a row (has_special_request)
HasAvailabilityRequest(student) ==
    SpecialRequest[student].exists /\ SpecialRequest[student].availability_approved

\* the hour of the start of a Lab.time: parse_time(time)[0][0]
StartHour(time_str) == parse_time(time_str)[1][1]

\* len(student_assignments[student]) >= student.lab_load
student_at_max_load(student, student_assignments) ==
    Len(student_assignments[student]) >= Student[student].lab_load

\* a capacity clause that lets one more through
ExceedsLoad_OneMore(student, labs, student_assignments) ==
    Len(student_assignments[student]) + Len(GroupRows(labs)) > Student[student].lab_load + 1

\* the capacity clause: groups held plus rows of the candidate
ExceedsLoad(student, labs, student_assignments) ==
    Len(student_assignments[student]) + Len(GroupRows(labs)) > Student[student].lab_load

\* a clash test that compares the time strings instead of the time ranges
HasTimeClash_SameTime(student, labs, student_assignments) ==
    \E lab \in Range(GroupRows(labs)) :
        \E assigned_lab \in Range(RowsOfGroups(student_assignments[student])) :
            /\ Lab[lab].day = Lab[assigned_lab].day
            /\ Lab[lab].time = Lab[assigned_lab].time
            /\ WeeksOverlap(Lab[lab].teaching_week, Lab[assigned_lab].teaching_week)

\* the time-clash clause: a row of the candidate against a row of a held group
HasTimeClash(student, labs, student_assignments) ==
    \E lab \in Range(GroupRows(labs)) :
        \E assigned_lab \in Range(RowsOfGroups(student_assignments[student])) :
            RowsClash(Lab[lab], Lab[assigned_lab])

\* the max-teaching-days clause: the day of the candidate's first row
ExceedsTeachingDays(student, labs, student_assignments) ==
    LET current_days == {Lab[l].day : l \in Range(RowsOfGroups(student_assignments[student]))}
        rows         == GroupRows(labs)
    IN  /\ HasAvailabilityRequest(student)
        /\ rows # <<>>
        /\ Lab[rows[1]].day \notin current_days
        /\ Cardinality(current_days) >= SpecialRequest[student].max_teaching_days

\* the unavailable-slot clause: day and AM/PM of the candidate's first row
InUnavailableSlot(student, labs) ==
    LET rows  == GroupRows(labs)
        slots == SpecialRequest[student].unavailable_slots
    IN  /\ HasAvailabilityRequest(student)
        /\ slots # <<>>
        /\ rows # <<>>
        /\ \E i \in 1..Len(slots) :
              /\ Lab[rows[1]].day = slots[i][1]
              /\ \/ slots[i][2] = "AM" /\ StartHour(Lab[rows[1]].time) < 12
                 \/ slots[i][2] = "PM" /\ StartHour(Lab[rows[1]].time) >= 12

\* violates_constraints(student, labs, student_assignments); labs is the key
\* of the candidate group, student_assignments maps students to lists of keys
violates_constraints(student, labs, student_assignments) ==
    \/ ExceedsLoad(student, labs, student_assignments)
    \/ HasTimeClash(student, labs, student_assignments)
    \/ ExceedsTeachingDays(student, labs, student_assignments)
    \/ InUnavailableSlot(student, labs)

\* the number of Assignment rows (student, lab) in the table asg
RecordsIn(asg, student, lab) == CopiesIn([course_lab |-> lab, student |-> student], asg)
Records(student, lab) == RecordsIn(Assignment, student, lab)

HolderOrder == StudentOrder \o <<NoStudent>>

\* the number of Assignment rows of a lab, over all students and NULL
RecordsOfLabIn(asg, lab) ==
    SumSeq([i \in 1..Len(HolderOrder) |-> RecordsIn(asg, HolderOrder[i], lab)])
RecordsOfLab(lab) == RecordsOfLabIn(Assignment, lab)

\* Assignment.objects.filter(student=student).exclude(course_lab_id__in=lab_ids):
\* the labs of these records (a lab once, however many records it has)
OtherAssignedLabs(asg, student, labs) ==
    LET Keep(id) == KeyOf(id) # labs /\ RecordsIn(asg, student, id) > 0
    IN  SelectSeq([i \in 1..Len(Lab) |-> i], Keep)

\* current_assignments.count()
OtherRecordCount(asg, student, labs) ==
    SumSeq([i \in 1..Len(OtherAssignedLabs(asg, student, labs)) |->
              RecordsIn(asg, student, OtherAssignedLabs(asg, student, labs)[i])])

\* validate_group_assignment(student, labs) against the Assignment table
\* asg: [ok, reason]
ValidateIn(asg, student, labs) ==
    LET rows         == GroupRows(labs)
        current      == Range(OtherAssignedLabs(asg, student, labs))
        current_days == {Lab[l].day : l \in current}
        new_days     == {Lab[l].day : l \in Range(rows)}
        new_teaching_days == new_days \ current_days
        slots        == SpecialRequest[student].unavailable_slots
        SlotOf(l)    == <<Lab[l].day, IF StartHour(Lab[l].time) < 12 THEN "AM" ELSE "PM">>
    IN  IF rows = <<>>
          THEN [ok |-> FALSE, reason |-> "No labs provided"]
        ELSE IF OtherRecordCount(asg, student, labs) >= Student[student].lab_load
          THEN [ok |-> FALSE, reason |-> "Student is already at maximum lab load"]
        ELSE IF \E lab \in Range(rows) : \E assigned_lab \in current :
                    RowsClash(Lab[lab], Lab[assigned_lab])
          THEN [ok |-> FALSE, reason |-> "Time clash with existing assignment"]
        ELSE IF /\ HasAvailabilityRequest(student)
                /\ new_teaching_days # {}
                /\ Cardinality(current_days) + Cardinality(new_teaching_days)
                      > SpecialRequest[student].max_teaching_days
          THEN [ok |-> FALSE, reason |-> "Exceeds maximum teaching days"]
        ELSE IF /\ HasAvailabilityRequest(student)
                /\ slots # <<>>
                /\ \E lab \in Range(rows) : SlotOf(lab) \in Range(slots)
          THEN [ok |-> FALSE, reason |-> "Assigned during unavailable time slot"]
        ELSE [ok |-> TRUE, reason |-> "Allocation is valid"]

validate_group_assignment(student, labs) == ValidateIn(Assignment, student, labs)

(***************************************************************************)
(* 4.5 Pairing heuristic: find_odd_even_pairs.                             *)
(***************************************************************************)
\* course_labs is a list of group keys; the result a list of <<odd, even>>
IsOddGroup(key)  == GroupRows(key) # <<>> /\ AllOdd(Lab[GroupRows(key)[1]].teaching_week)
IsEvenGroup(key) == /\ GroupRows(key) # <<>>
                    /\ ~AllOdd(Lab[GroupRows(key)[1]].teaching_week)
                    /\ AllEven(Lab[GroupRows(key)[1]].teaching_week)

SameSlot(k1, k2) ==
    /\ Lab[GroupRows(k1)[1]].day = Lab[GroupRows(k2)[1]].day
    /\ Lab[GroupRows(k1)[1]].time = Lab[GroupRows(k2)[1]].time

find_odd_even_pairs(course_labs) ==
    LET odd_labs  == SelectSeq(course_labs, IsOddGroup)
        even_labs == SelectSeq(course_labs, IsEvenGroup)
        \* the first even group in the odd group's slot, 0 if none
        Match(o)  == IF \E j \in 1..Len(even_labs) : SameSlot(o, even_labs[j])
                     THEN CHOOSE j \in 1..Len(even_labs) :
                            /\ SameSlot(o, even_labs[j])
                            /\ \A k \in 1..(j - 1) : ~SameSlot(o, even_labs[k])
                     ELSE 0
        HasMatch(o) == Match(o) # 0
        matched   == SelectSeq(odd_labs, HasMatch)
    IN  [i \in 1..Len(matched) |-> <<matched[i], even_labs[Match(matched[i])]>>]

(***************************************************************************)
(* The state of one trial, threaded through the pre-pass and the greedy    *)
(* pass: avail is available_labs (the keys of the dict, in dict order), sa *)
(* is student_assignments, n is labs_to_assign of the lock being handled,  *)
(* crashed records a KeyError raised by `del available_labs[key]`, and log *)
(* lists the attempts made (one entry per call sequence that tried to      *)
(* assign a pair or a single group).                                       *)
(***************************************************************************)
TrialState(avail, sa) ==
    [avail |-> avail, sa |-> sa, n |-> 0, crashed |-> FALSE, log |-> <<>>]

\* one entry of the log: the attempt and the state on both sides of it;
\* phase is <<name, ranking>> (ranking 0 outside the preference phase)
Logged(phase, kind, student, keys, ts0, ts1) ==
    [ts1 EXCEPT !.log = Append(ts0.log,
        [phase |-> phase[1], rank |-> phase[2], kind |-> kind,
         student |-> student, keys |-> keys,
         free |-> Student[student].lab_load - Len(ts0.sa[student]),
         n |-> ts0.n,
         sa0 |-> ts0.sa, avail0 |-> ts0.avail,
         sa1 |-> ts1.sa, avail1 |-> ts1.avail])]

\* an assignment that leaves the group in the pool
AssignGroup_KeepInPool(student, key, ts) ==
    [ts EXCEPT !.sa[student] = Append(@, key),
               !.crashed = @ \/ key \notin Range(ts.avail)]

\* student_assignments[student].append(labs); del available_labs[key]
AssignGroup(student, key, ts) ==
    [ts EXCEPT !.sa[student] = Append(@, key),
               !.avail = RemoveFirst(@, key),
               !.crashed = @ \/ key \notin Range(ts.avail)]

\* a pair attempt that keeps the first group when the second is refused
TryPair_NoRollback(student, pair, ts) ==
    IF violates_constraints(student, pair[1], ts.sa) THEN ts
    ELSE TheOne({ IF t1.crashed THEN t1
                  ELSE IF ~violates_constraints(student, pair[2], t1.sa)
                    THEN AssignGroup(student, pair[2], t1)
                  ELSE t1 :
                  t1 \in {AssignGroup(student, pair[1], ts)} })

\* the body of `for pair in odd_even_pairs` after its break test: both
\* groups of the pair, or neither (the first is put back at the dict's end)
TryPair(student, pair, ts) ==
    IF violates_constraints(student, pair[1], ts.sa) THEN ts
    ELSE TheOne({ IF t1.crashed THEN t1
                  ELSE IF ~violates_constraints(student, pair[2], t1.sa)
                    THEN AssignGroup(student, pair[2], t1)
                  ELSE [t1 EXCEPT !.avail = Append(@, pair[1]),
                                  !.sa[student] = SubSeq(@, 1, Len(@) - 1)] :
                  t1 \in {AssignGroup(student, pair[1], ts)} })

\* [(key, labs) for key, labs in available_labs.items() if key[0] == course]
CourseLabs(avail, course) ==
    LET Of(key) == key[1] = course
    IN  SelectSeq(avail, Of)

(***************************************************************************)
(* 4.4 Locked-request pre-pass: handle_course_lock_requests.               *)
(***************************************************************************)
\* one iteration of `for pair in odd_even_pairs` past its break test;
\* labs_to_assign -= 2 when both groups were assigned
LockPairStep(student, pair, ts) ==
    TheOne({ Logged(<<"lock", 0>>, "pair", student, pair, ts,
                    IF Len(t1.sa[student]) = Len(ts.sa[student]) + 2 /\ ~t1.crashed
                      THEN [t1 EXCEPT !.n = @ - 2] ELSE t1) :
             t1 \in {TryPair(student, pair, ts)} })

RECURSIVE LockPairLoop(_, _, _)
\* for pair in odd_even_pairs: if labs_to_assign <= 1: break ...
LockPairLoop(student, pairs, ts) ==
    IF pairs = <<>> \/ ts.crashed \/ ts.n <= 1 THEN ts
    ELSE TheOne({ LockPairLoop(student, Tail(pairs), t) :
                  t \in {LockPairStep(student, Head(pairs), ts)} })

\* one iteration of `for key, labs in list(course_labs)`
LockSingleStep(student, key, ts) ==
    IF key \notin Range(ts.avail) THEN ts
    ELSE IF violates_constraints(student, key, ts.sa)
      THEN Logged(<<"lock", 0>>, "single", student, <<key>>, ts, ts)
    ELSE TheOne({ Logged(<<"lock", 0>>, "single", student, <<key>>, ts,
                         [t1 EXCEPT !.n = @ - 1]) :
                  t1 \in {AssignGroup(student, key, ts)} })

RECURSIVE LockSingleLoop(_, _, _)
\* for key, labs in list(course_labs): if key in available_labs: ...
LockSingleLoop(student, keys, ts) ==
    IF keys = <<>> \/ ts.crashed THEN ts
    ELSE TheOne({ LockSingleLoop(student, Tail(keys), t) :
                  t \in {LockSingleStep(student, Head(keys), ts)} })

\* the body of `for lock in course_locks` for one approved lock
HandleLock(student, students, ts) ==
    IF student \notin Range(students) THEN ts
    ELSE TheOne({ TheOne({ IF t1.n > 0 THEN LockSingleLoop(student, course_labs, t1)
                           ELSE t1 :
                           t1 \in {LockPairLoop(student, find_odd_even_pairs(course_labs),
                                       [ts EXCEPT !.n = SpecialRequest[student].lab_groups_locked])} }) :
                  course_labs \in {CourseLabs(ts.avail, SpecialRequest[student].course_lock)} })

\* SpecialRequest.objects.filter(course_lock_approved=True), in table order
CourseLocks ==
    LET Approved(s) == SpecialRequest[s].exists /\ SpecialRequest[s].course_lock_approved
    IN  SelectSeq(StudentOrder, Approved)

RECURSIVE LockLoop(_, _, _)
LockLoop(locks, students, ts) ==
    IF locks = <<>> \/ ts.crashed THEN ts
    ELSE TheOne({ LockLoop(Tail(locks), students, t) :
                  t \in {HandleLock(Head(locks), students, ts)} })

\* a pre-pass that goes on from the lists of the trial before
handle_course_lock_requests_Carry(available_labs, student_assignments, students) ==
    LockLoop(CourseLocks, students,
             TrialState(available_labs,
                        IF trial = 0 THEN student_assignments ELSE current_assignments))

handle_course_lock_requests(available_labs, student_assignments, students) ==
    LockLoop(CourseLocks, students, TrialState(available_labs, student_assignments))

(***************************************************************************)
(* 4.6 Greedy allocator: greedy_allocation, one student at a time.         *)
(***************************************************************************)
RECURSIVE GreedyPairLoop(_, _, _, _)
\* for pair in odd_even_pairs: if lab_load - len(assigned) <= 1: break ...
GreedyPairLoop(phase, student, pairs, ts) ==
    IF pairs = <<>> \/ ts.crashed THEN ts
    ELSE IF Student[student].lab_load - Len(ts.sa[student]) <= 1 THEN ts
    ELSE TheOne({ GreedyPairLoop(phase, student, Tail(pairs),
                                 Logged(phase, "pair", student, Head(pairs), ts, t)) :
                  t \in {TryPair(student, Head(pairs), ts)} })

\* one iteration of `for key, labs in list(course_labs)`
GreedySingleStep(phase, student, key, ts) ==
    IF key \notin Range(ts.avail) \/ student_at_max_load(student, ts.sa) THEN ts
    ELSE IF violates_constraints(student, key, ts.sa)
      THEN Logged(phase, "single", student, <<key>>, ts, ts)
    ELSE TheOne({ Logged(phase, "single", student, <<key>>, ts, t) :
                  t \in {AssignGroup(student, key, ts)} })

RECURSIVE GreedySingleLoop(_, _, _, _)
\* for key, labs in list(course_labs):
\*     if key in available_labs and not student_at_max_load(...): ...
GreedySingleLoop(phase, student, keys, ts) ==
    IF keys = <<>> \/ ts.crashed THEN ts
    ELSE TheOne({ GreedySingleLoop(phase, student, Tail(keys), t) :
                  t \in {GreedySingleStep(phase, student, Head(keys), ts)} })

\* pairs first, then the remaining groups of one course
CourseBlock(phase, student, course, ts) ==
    TheOne({ TheOne({ GreedySingleLoop(phase, student, course_labs, t1) :
                      t1 \in {GreedyPairLoop(phase, student,
                                             find_odd_even_pairs(course_labs), ts)} }) :
             course_labs \in {CourseLabs(ts.avail, course)} })

RECURSIVE ContinuityLoop(_, _, _)
\* for course in assigned_courses: if student_at_max_load(...): break ...
ContinuityLoop(student, courses, ts) ==
    IF courses = <<>> \/ ts.crashed \/ student_at_max_load(student, ts.sa) THEN ts
    ELSE TheOne({ ContinuityLoop(student, Tail(courses), t) :
                  t \in {CourseBlock(<<"continuity", 0>>, student, Head(courses), ts)} })

\* the preferences taken worst ranking first
CurrentPrefs_WorstFirst(student, ranking) ==
    LET Mine(p)  == p.student = student /\ p.ranking = 9 - ranking
        Past(p)  == p.course \in Student[student].past_assignments
        NotPast(p) == ~Past(p)
        prefs    == SelectSeq(TeachingPreference, Mine)
    IN  IF Len(prefs) > 1 THEN SelectSeq(prefs, Past) \o SelectSeq(prefs, NotPast)
        ELSE prefs

\* TeachingPreference.objects.filter(student=student, ranking=ranking), and,
\* when several, sorted(..., key=course in past_assignments, reverse=True)
CurrentPrefs(student, ranking) ==
    LET Mine(p)  == p.student = student /\ p.ranking = ranking
        Past(p)  == p.course \in Student[student].past_assignments
        NotPast(p) == ~Past(p)
        prefs    == SelectSeq(TeachingPreference, Mine)
    IN  IF Len(prefs) > 1 THEN SelectSeq(prefs, Past) \o SelectSeq(prefs, NotPast)
        ELSE prefs

RECURSIVE PrefLoop(_, _, _, _)
\* for pref in current_prefs: if student_at_max_load(...): break ...
PrefLoop(student, ranking, prefs, ts) ==
    IF prefs = <<>> \/ ts.crashed \/ student_at_max_load(student, ts.sa) THEN ts
    ELSE TheOne({ PrefLoop(student, ranking, Tail(prefs), t) :
                  t \in {CourseBlock(<<"preference", ranking>>, student,
                                     Head(prefs).course, ts)} })

RECURSIVE RankingLoop(_, _, _)
\* for ranking in range(1, 9): if student_at_max_load(...): break ...
RankingLoop(student, ranking, ts) ==
    IF ranking > 8 \/ ts.crashed \/ student_at_max_load(student, ts.sa) THEN ts
    ELSE TheOne({ RankingLoop(student, ranking + 1, t) :
                  t \in {PrefLoop(student, ranking, CurrentPrefs(student, ranking), ts)} })

\* an iteration that assigns only when it is the first attempt made for the
\* student
RemainingStep_OneOnly(student, key, ts) ==
    IF violates_constraints(student, key, ts.sa) \/ ts.log # <<>>
      THEN Logged(<<"remaining", 0>>, "single", student, <<key>>, ts, ts)
    ELSE TheOne({ Logged(<<"remaining", 0>>, "single", student, <<key>>, ts, t) :
                  t \in {AssignGroup(student, key, ts)} })

\* one iteration of `for key, labs in list(available_labs.items())`
RemainingStep(student, key, ts) ==
    IF violates_constraints(student, key, ts.sa)
      THEN Logged(<<"remaining", 0>>, "single", student, <<key>>, ts, ts)
    ELSE TheOne({ Logged(<<"remaining", 0>>, "single", student, <<key>>, ts, t) :
                  t \in {AssignGroup(student, key, ts)} })

RECURSIVE RemainingLoop(_, _, _)
\* for key, labs in list(available_labs.items()): if not violates: assign
RemainingLoop(student, keys, ts) ==
    IF keys = <<>> \/ ts.crashed THEN ts
    ELSE TheOne({ RemainingLoop(student, Tail(keys), t) :
                  t \in {RemainingStep(student, Head(keys), ts)} })

\* set(lab.code for lab_group in student_assignments[student] for lab in lab_group)
AssignedCourses(student, sa) == {Lab[l].code : l \in Range(RowsOfGroups(sa[student]))}

\* the body of `for student in students`; course_order is the order in which
\* the set assigned_courses is iterated
GreedyStudent(student, course_order, ts) ==
    IF student_at_max_load(student, ts.sa) THEN ts
    ELSE TheOne({ TheOne({ IF ~t2.crashed /\ ~student_at_max_load(student, t2.sa)
                             THEN RemainingLoop(student, t2.avail, t2)
                           ELSE t2 :
                           t2 \in {RankingLoop(student, 1, t1)} }) :
                  t1 \in {ContinuityLoop(student, course_order, ts)} })

(***************************************************************************)
(* 4.7 Penalty scorer.  assignments is the flat list of <<student, lab>>,  *)
(* student_assignments maps students to lists of group keys, students is   *)
(* the list of students of the workload penalty.                           *)
(***************************************************************************)
\* lab_assignments[(day, time)][(code, group)]: the student of the last
\* entry of the flat list for that slot and group ("none" when absent)
SlotOwner(assignments, day, time, key) ==
    LET Hit(i) == /\ Lab[assignments[i][2]].day = day
                  /\ Lab[assignments[i][2]].time = time
                  /\ KeyOf(assignments[i][2]) = key
        hits   == {i \in 1..Len(assignments) : Hit(i)}
    IN  IF hits = {} THEN "none"
        ELSE assignments[CHOOSE i \in hits : \A j \in hits : j <= i][1]

\* Lab.objects.filter(code=, group=, day=, time=).first()
FirstLabAt(key, day, time) ==
    CHOOSE id \in LabIds :
        /\ KeyOf(id) = key /\ Lab[id].day = day /\ Lab[id].time = time
        /\ \A j \in 1..(id - 1) :
              ~(KeyOf(j) = key /\ Lab[j].day = day /\ Lab[j].time = time)

calculate_odd_even_pair_penalty(assignments) ==
    LET slots == {<<Lab[assignments[i][2]].day, Lab[assignments[i][2]].time>> :
                    i \in 1..Len(assignments)}
        KeysAt(slot) == {k \in AllKeys : SlotOwner(assignments, slot[1], slot[2], k) # "none"}
        Counts(slot, k1, k2) ==
            LET weeks1 == Lab[FirstLabAt(k1, slot[1], slot[2])].teaching_week
                weeks2 == Lab[FirstLabAt(k2, slot[1], slot[2])].teaching_week
            IN  /\ k1 # k2
                /\ SlotOwner(assignments, slot[1], slot[2], k1)
                     # SlotOwner(assignments, slot[1], slot[2], k2)
                /\ \/ AllOdd(weeks1) /\ AllEven(weeks2)
                   \/ AllEven(weeks1) /\ AllOdd(weeks2)
    IN  Cardinality({t \in slots \X AllKeys \X AllKeys :
                       /\ t[2] \in KeysAt(t[1]) /\ t[3] \in KeysAt(t[1])
                       /\ Counts(t[1], t[2], t[3])})

\* set(lab.code for lab_group in assignments for lab in lab_group)
UniqueCourses(groups) == {Lab[l].code : l \in Range(RowsOfGroups(groups))}

calculate_course_variety_penalty(student_assignments) ==
    SumSeq([i \in 1..Len(StudentOrder) |->
              IF student_assignments[StudentOrder[i]] = <<>> THEN 0
              ELSE Cardinality(UniqueCourses(student_assignments[StudentOrder[i]])) - 1])

\* preferences = {pref.course: pref.ranking ...}: the last row wins
PreferenceRank(student, course) ==
    LET hits == {i \in 1..Len(TeachingPreference) :
                   /\ TeachingPreference[i].student = student
                   /\ TeachingPreference[i].course = course}
    IN  IF hits = {} THEN 0
        ELSE TeachingPreference[CHOOSE i \in hits : \A j \in hits : j <= i].ranking

\* the penalty with 8 for a course the student did not rank
calculate_preference_penalty_Eight(student_assignments) ==
    LET Of(student, course) ==
            IF course \notin UniqueCourses(student_assignments[student]) THEN 0
            ELSE IF PreferenceRank(student, course) # 0
              THEN PreferenceRank(student, course) - 1
            ELSE 8
    IN  SumSeq([i \in 1..Len(StudentOrder) |->
                  SumSeq([j \in 1..Len(CourseOrder) |->
                            Of(StudentOrder[i], CourseOrder[j])])])

calculate_preference_penalty(student_assignments) ==
    LET Of(student, course) ==
            IF course \notin UniqueCourses(student_assignments[student]) THEN 0
            ELSE IF PreferenceRank(student, course) # 0
              THEN PreferenceRank(student, course) - 1
            ELSE 16
    IN  SumSeq([i \in 1..Len(StudentOrder) |->
                  SumSeq([j \in 1..Len(CourseOrder) |->
                            Of(StudentOrder[i], CourseOrder[j])])])

calculate_past_assignments_bonus(student_assignments) ==
    SumSeq([i \in 1..Len(StudentOrder) |->
              Cardinality(Student[StudentOrder[i]].past_assignments
                          \cap UniqueCourses(student_assignments[StudentOrder[i]]))])

\* total_workload of a student: hours * weeks of the course of every row
TotalWorkload(groups) ==
    SumSeq([i \in 1..Len(RowsOfGroups(groups)) |->
              Course[Lab[RowsOfGroups(groups)[i]].code].hours
              * Course[Lab[RowsOfGroups(groups)[i]].code].weeks])

RECURSIVE Gcd(_, _)
Gcd(a, b) == IF b = 0 THEN a ELSE TheOne({Gcd(b, r) : r \in {a % b}})
Lcm(a, b) == (a * b) \div Gcd(a, b)

RECURSIVE LcmSeq(_)
LcmSeq(s) == IF s = <<>> THEN 1
             ELSE TheOne({Lcm(Head(s), rest) : rest \in {LcmSeq(Tail(s))}})

RECURSIVE ISqrtIn(_, _, _)
\* the largest k in lo..hi with k * k <= v
ISqrtIn(v, lo, hi) ==
    IF lo >= hi THEN lo
    ELSE TheOne({ IF mid * mid <= v THEN ISqrtIn(v, mid, hi)
                  ELSE TheOne({ISqrtIn(v, lo, top) : top \in {mid - 1}}) :
                  mid \in {(lo + hi + 1) \div 2} })

\* floor(sqrt(v)) for 0 <= v < 2^30
ISqrt(v) == ISqrtIn(v, 0, 32767)

\* statistics.stdev(workload_ratios) squared, as the fraction <<num, den>>:
\* with ratios X[i]/d, the sample variance is
\* (n * sum X[i]^2 - (sum X[i])^2) / (n * (n - 1) * d^2); <<0, 1>> when the
\* list has fewer than two ratios
WorkloadVariance(student_assignments, students) ==
    LET n     == Len(students)
        loads == [i \in 1..n |-> Student[students[i]].lab_load]
        d     == LcmSeq(loads)
        X     == [i \in 1..n |->
                    TotalWorkload(student_assignments[students[i]]) * (d \div loads[i])]
        sumsq == SumSeq([i \in 1..n |-> X[i] * X[i]])
        sum   == SumSeq(X)
        num   == n * sumsq - sum * sum
        den   == n * (n - 1) * d * d
    IN  IF n <= 1 THEN <<0, 1>>
        ELSE <<num \div Gcd(num, den), den \div Gcd(num, den)>>

\* Scores are kept in hundredths: the four integer terms are exact and the
\* workload term, weight * stdev, is floor(100 * weight * stdev).  Equal
\* real scores give equal values and a smaller real score never gives a
\* larger value.
calculate_workload_penalty_x100(student_assignments, students, weight) ==
    LET v == WorkloadVariance(student_assignments, students)
    IN  IF weight >= 0
          THEN ISqrt((10000 * weight * weight * v[1]) \div v[2])
        ELSE 0 - ISqrt((10000 * weight * weight * v[1]) \div v[2])

\* the score with the bonus of past assignments added instead of subtracted
calculate_penalty_score_BonusAdded(assignments, student_assignments, students, weights) ==
      100 * calculate_odd_even_pair_penalty(assignments) * weights.odd_even_pair_weight
    + 100 * calculate_course_variety_penalty(student_assignments) * weights.course_variety_weight
    + 100 * calculate_preference_penalty(student_assignments) * weights.preference_weight
    + calculate_workload_penalty_x100(student_assignments, students,
                                      weights.workload_distribution_weight)
    + 100 * calculate_past_assignments_bonus(student_assignments) * weights.past_assignments_weight

calculate_penalty_score(assignments, student_assignments, students, weights) ==
      100 * calculate_odd_even_pair_penalty(assignments) * weights.odd_even_pair_weight
    + 100 * calculate_course_variety_penalty(student_assignments) * weights.course_variety_weight
    + 100 * calculate_preference_penalty(student_assignments) * weights.preference_weight
    + calculate_workload_penalty_x100(student_assignments, students,
                                      weights.workload_distribution_weight)
    - 100 * calculate_past_assignments_bonus(student_assignments) * weights.past_assignments_weight

(***************************************************************************)
(* 4.8 Multi-start search driver: allocation_algorithm.                    *)
(***************************************************************************)
NoBest == [assignments |-> <<>>, penalty_score |-> 0, inf |-> TRUE]
NoAssignments == [s \in Students |-> <<>>]

\* the values the call's variables have while no call is in progress
RunIdle ==
    /\ clear_existing = FALSE
    /\ lab_groups = <<>>
    /\ students_with_capacity = <<>>
    /\ base_student_assignments = NoAssignments
    /\ trial = 0
    /\ working_lab_groups = <<>>
    /\ current_assignments = NoAssignments
    /\ best_solution = NoBest
    /\ new_assignments = <<>>
    /\ greedy_i = 0

\* list(Student.objects.filter(gs_duty=True))
EligibleStudents ==
    LET Duty(s) == Student[s].gs_duty
    IN  SelectSeq(StudentOrder, Duty)

\* Assignment.objects.filter(student=student): the labs of the student's
\* records in the table asg
AssignedLabsOf(asg, student) ==
    LET Has(id) == RecordsIn(asg, student, id) > 0
    IN  SelectSeq([i \in 1..Len(Lab) |-> i], Has)

RECURSIVE MapExisting(_, _)
\* for assignment in existing_assignments: if group_key in lab_groups: ...
\* st = [groups, assigned]: the dict's keys and the student's assigned_groups
MapExisting(labs, st) ==
    IF labs = <<>> THEN st
    ELSE LET group_key == KeyOf(Head(labs))
         IN  MapExisting(Tail(labs),
                IF group_key \in Range(st.groups)
                  THEN [groups   |-> RemoveFirst(st.groups, group_key),
                        assigned |-> Append(st.assigned, group_key)]
                ELSE st)

RECURSIVE LoadStudents(_, _, _)
\* for student in eligible_students: ...
\* st = [groups, sa, cap]: lab_groups, student_assignments (assigned_groups
\* of the students kept), students_with_capacity
LoadStudents(asg, students, st) ==
    IF students = <<>> THEN st
    ELSE LET student == Head(students)
             m == MapExisting(AssignedLabsOf(asg, student),
                              [groups |-> st.groups, assigned |-> <<>>])
             current_load == Len(m.assigned)
         IN  LoadStudents(asg, Tail(students),
                IF current_load < Student[student].lab_load
                  THEN [groups |-> m.groups,
                        sa     |-> [st.sa EXCEPT ![student] = m.assigned],
                        cap    |-> Append(st.cap, student)]
                ELSE [st EXCEPT !.groups = m.groups])

\* the sort key of students_with_capacity.sort
Priority(s, sa) ==
    << IF HasAvailabilityRequest(s) THEN -1 ELSE 0,
       0 - (Student[s].lab_load - Len(sa[s])) >>

KeyLessEq(a, b) == a[1] < b[1] \/ (a[1] = b[1] /\ a[2] <= b[2])

RECURSIVE InsertSorted(_, _, _)
\* x placed after every element whose key is not larger (the sort is stable)
InsertSorted(sorted, x, sa) ==
    IF sorted = <<>> THEN <<x>>
    ELSE IF KeyLessEq(Priority(Head(sorted), sa), Priority(x, sa))
      THEN <<Head(sorted)>> \o InsertSorted(Tail(sorted), x, sa)
    ELSE <<x>> \o sorted

RECURSIVE SortStudents(_, _)
SortStudents(students, sa) ==
    IF students = <<>> THEN <<>>
    ELSE InsertSorted(SortStudents(SubSeq(students, 1, Len(students) - 1), sa),
                      students[Len(students)], sa)

\* lines 22-25: Assignment.objects.all().delete(); Lab.objects.all().update(assigned=False)
ClearedLabs == [i \in 1..Len(Lab) |-> [Lab[i] EXCEPT !.assigned = FALSE]]

\* lines 19-89 of a call: clear, read, the two setup errors, the sort
RunStart(clear) ==
    LET asg0     == IF clear THEN EmptyBag ELSE Assignment
        eligible == EligibleStudents
        loaded   == LoadStudents(asg0, eligible,
                        [groups |-> group_labs_by_course_and_group,
                         sa |-> NoAssignments, cap |-> <<>>])
    IN  /\ pc = "idle"
        /\ before' = [Assignment |-> Assignment, Lab |-> Lab]
        /\ scored' = <<>>
        /\ Assignment' = asg0
        /\ Lab' = IF clear THEN ClearedLabs ELSE Lab
        /\ clear_existing' = clear
        /\ log' = <<>>
        /\ UNCHANGED <<Student, SpecialRequest, TeachingPreference, AllocationWeights,
                       working_lab_groups, current_assignments, new_assignments,
                       greedy_i, trial, best_solution, fnVars>>
        /\ IF eligible = <<>>
             THEN /\ outcome' = "no_eligible"
                  /\ pc' = "done"
                  /\ UNCHANGED <<lab_groups, students_with_capacity,
                                 base_student_assignments>>
           ELSE IF loaded.cap = <<>>
             THEN /\ outcome' = "no_capacity"
                  /\ pc' = "done"
                  /\ UNCHANGED <<lab_groups, students_with_capacity,
                                 base_student_assignments>>
           ELSE /\ outcome' = "running"
                /\ lab_groups' = loaded.groups
                /\ students_with_capacity' = SortStudents(loaded.cap, loaded.sa)
                /\ base_student_assignments' = loaded.sa
                /\ pc' = IF AllocationWeights.permutation_count > 0
                           THEN "lock" ELSE "persist"

\* lines 93-102 of a trial: the working copies and the locked-request pre-pass
TrialLock ==
    LET ts == handle_course_lock_requests(lab_groups, base_student_assignments,
                                          students_with_capacity)
    IN  /\ pc = "lock"
        /\ working_lab_groups' = ts.avail
        /\ current_assignments' = ts.sa
        /\ log' = ts.log
        /\ IF ts.crashed
             THEN pc' = "done" /\ outcome' = "crashed" /\ greedy_i' = 0
           ELSE pc' = "greedy" /\ outcome' = outcome /\ greedy_i' = 1
        /\ UNCHANGED <<dbVars, clear_existing, lab_groups, students_with_capacity,
                       base_student_assignments, trial, best_solution,
                       new_assignments, before, scored, fnVars>>

\* line 105: one iteration of `for student in students` of greedy_allocation;
\* the set assigned_courses is iterated in some order
TrialGreedy ==
    /\ pc = "greedy"
    /\ greedy_i <= Len(students_with_capacity)
    /\ LET student == students_with_capacity[greedy_i]
           ts0     == TrialState(working_lab_groups, current_assignments)
       IN  \E course_order \in Perms(AssignedCourses(student, current_assignments)) :
              LET ts == GreedyStudent(student, course_order, ts0)
              IN  /\ working_lab_groups' = ts.avail
                  /\ current_assignments' = ts.sa
                  /\ log' = ts.log
                  /\ IF ts.crashed
                       THEN pc' = "done" /\ outcome' = "crashed" /\ greedy_i' = 0
                     ELSE /\ outcome' = outcome
                          /\ greedy_i' = greedy_i + 1
                          /\ pc' = IF greedy_i = Len(students_with_capacity)
                                     THEN "score" ELSE "greedy"
    /\ UNCHANGED <<dbVars, clear_existing, lab_groups, students_with_capacity,
                   base_student_assignments, trial, best_solution,
                   new_assignments, before, scored, fnVars>>

\* a flattening that takes the first lab of each group only
FlatOfGroups_FirstLab(student, groups) ==
    [i \in 1..Len(groups) |-> <<student, GroupRows(groups[i])[1]>>]

RECURSIVE FlatOfGroups(_, _)
\* for lab_group in assigned_labs: for lab in lab_group: (student, lab)
FlatOfGroups(student, groups) ==
    IF groups = <<>> THEN <<>>
    ELSE [i \in 1..Len(GroupRows(Head(groups))) |-> <<student, GroupRows(Head(groups))[i]>>]
         \o FlatOfGroups(student, Tail(groups))

RECURSIVE FlatAssignments(_, _)
\* lines 108-112; students is the key order of current_assignments
FlatAssignments(students, sa) ==
    IF students = <<>> THEN <<>>
    ELSE FlatOfGroups(Head(students), sa[Head(students)])
         \o FlatAssignments(Tail(students), sa)

\* the keys of current_assignments in insertion order: the eligible students
\* kept in student_assignments
AssignmentKeys ==
    LET Kept(s) == s \in Range(students_with_capacity)
    IN  SelectSeq(StudentOrder, Kept)

\* a comparison that also replaces the best solution on an equal score
BetterThanBest_OrEqual(penalty_score) ==
    best_solution.inf \/ penalty_score <= best_solution.penalty_score

\* penalty_score < best_solution['penalty_score']
BetterThanBest(penalty_score) ==
    best_solution.inf \/ penalty_score < best_solution.penalty_score

\* lines 107-127 of a trial: score, keep the best, shuffle.  The shuffle
\* after the last trial is not recorded: lab_groups is not read again.
TrialScore ==
    LET flat_assignments == FlatAssignments(AssignmentKeys, current_assignments)
        penalty_score    == calculate_penalty_score(flat_assignments, current_assignments,
                                students_with_capacity, AllocationWeights)
        last == trial + 1 >= AllocationWeights.permutation_count
    IN  /\ pc = "score"
        /\ best_solution' = IF BetterThanBest(penalty_score)
                              THEN [assignments |-> flat_assignments,
                                    penalty_score |-> penalty_score, inf |-> FALSE]
                            ELSE best_solution
        /\ trial' = trial + 1
        /\ IF last THEN lab_groups' = lab_groups
           ELSE lab_groups' \in Perms(Range(lab_groups))
        /\ pc' = IF last THEN "persist" ELSE "lock"
        /\ greedy_i' = 0
        /\ log' = <<>>
        /\ scored' = Append(scored, [assignments |-> flat_assignments,
                                      penalty_score |-> penalty_score])
        /\ UNCHANGED <<dbVars, clear_existing, students_with_capacity,
                       base_student_assignments, working_lab_groups,
                       current_assignments, new_assignments, outcome, before, fnVars>>

\* lines 130-134: the pairs of the best solution with no Assignment row yet
Persist ==
    LET New(a) == Records(a[1], a[2]) = 0
    IN  /\ pc = "persist"
        /\ new_assignments' = SelectSeq(best_solution.assignments, New)
        /\ pc' = "save"
        /\ log' = <<>>
        /\ UNCHANGED <<dbVars, clear_existing, lab_groups, students_with_capacity,
                       base_student_assignments, trial, working_lab_groups,
                       current_assignments, best_solution, greedy_i, outcome,
                       before, scored, fnVars>>

\* a save that replaces the records the lab has
CreateRecord_Replace(asg, student, lab) ==
    LET Others(r) == r.course_lab # lab
        kept == [r \in {x \in DOMAIN asg : Others(x)} |-> asg[r]]
    IN  kept (+) SetToBag({[course_lab |-> lab, student |-> student]})

\* Assignment.objects.create(course_lab=lab, student=student)
CreateRecord(asg, student, lab) ==
    asg (+) SetToBag({[course_lab |-> lab, student |-> student]})

\* one iteration of the loop of save_assignments (allocation_algorithm.py):
\* create the record, then lab.assigned = True; lab.save()
SaveOne ==
    /\ pc = "save"
    /\ new_assignments # <<>>
    /\ Assignment' = CreateRecord(Assignment, Head(new_assignments)[1],
                                  Head(new_assignments)[2])
    /\ Lab' = [Lab EXCEPT ![Head(new_assignments)[2]].assigned = TRUE]
    /\ new_assignments' = Tail(new_assignments)
    /\ UNCHANGED <<Student, SpecialRequest, TeachingPreference, AllocationWeights,
                   pc, clear_existing, lab_groups, students_with_capacity,
                   base_student_assignments, trial, working_lab_groups,
                   current_assignments, best_solution, greedy_i, outcome,
                   before, scored, log, fnVars>>

\* round(x, 1) of a score given in hundredths, as a number of tenths: the
\* nearest tenth, a tie going to the even tenth
RoundTenths(x100) ==
    LET q == x100 \div 10
        r == x100 % 10
    IN  IF r > 5 \/ (r = 5 /\ q % 2 = 1) THEN q + 1 ELSE q

\* stats['penalty_score'] = round(best_solution['penalty_score'], 1)
stats_penalty_score == RoundTenths(best_solution.penalty_score)

\* lines 137-141: the call returns its statistics
RunFinish ==
    /\ pc = "save"
    /\ new_assignments = <<>>
    /\ pc' = "done"
    /\ outcome' = "ok"
    /\ UNCHANGED <<dbVars, clear_existing, lab_groups, students_with_capacity,
                   base_student_assignments, trial, working_lab_groups,
                   current_assignments, best_solution, new_assignments, greedy_i,
                   before, scored, log, fnVars>>

RunStep ==
    \/ \E clear \in BOOLEAN : RunStart(clear)
    \/ TrialLock
    \/ TrialGreedy
    \/ TrialScore
    \/ Persist
    \/ SaveOne
    \/ RunFinish

\* a student without a SpecialRequest row
NoRequest ==
    [exists |-> FALSE, course_lock |-> "none", lab_groups_locked |-> 0,
     unavailable_slots |-> <<>>, max_teaching_days |-> 5,
     course_lock_approved |-> FALSE, availability_approved |-> FALSE]

\* an approved request locking n groups of a course
LockRequest(course, n) ==
    [NoRequest EXCEPT !.exists = TRUE, !.course_lock = course,
                      !.lab_groups_locked = n, !.course_lock_approved = TRUE]

\* an approved availability request
AvailabilityRequest(days, slots) ==
    [NoRequest EXCEPT !.exists = TRUE, !.max_teaching_days = days,
                      !.unavailable_slots = slots, !.availability_approved = TRUE]

\* the view returns: nothing of the call is kept
Return ==
    /\ pc = "done"
    /\ pc' = "idle"
    /\ outcome' = "none"
    /\ clear_existing' = FALSE
    /\ lab_groups' = <<>>
    /\ students_with_capacity' = <<>>
    /\ base_student_assignments' = NoAssignments
    /\ trial' = 0
    /\ working_lab_groups' = <<>>
    /\ current_assignments' = NoAssignments
    /\ best_solution' = NoBest
    /\ new_assignments' = <<>>
    /\ greedy_i' = 0
    /\ before' = [Assignment |-> EmptyBag, Lab |-> <<>>]
    /\ scored' = <<>>
    /\ log' = <<>>
    /\ UNCHANGED <<dbVars, fnVars>>

(***************************************************************************)
(* 4.8 Manual edit (views.save_assignments), clear-all and semester reset. *)
(* db = [asg, lab, crashed]: the Assignment table, the Lab table and       *)
(* whether Assignment.objects.get raised MultipleObjectsReturned, which    *)
(* ends the request with what was written so far.                          *)
(***************************************************************************)
\* what a posted form gives for a group: a student id, "" (no student
\* selected) or "delete" (the delete box ticked)
EditChoices == Students \cup {"", "delete"}

\* the groups of the course's labs, keyed in table order
GroupsOfCourse(course) == CourseLabs(group_labs_by_course_and_group, course)

\* Assignment.objects.filter(course_lab=lab).delete()
DeleteRecords(asg, lab) ==
    [r \in {x \in DOMAIN asg : x.course_lab # lab} |-> asg[r]]

RECURSIVE DeleteGroup(_, _)
\* for lab in group_labs: delete the lab's records; lab.assigned = False
DeleteGroup(db, labs) ==
    IF labs = <<>> THEN db
    ELSE TheOne({ DeleteGroup(d, Tail(labs)) :
                  d \in {[db EXCEPT !.asg = DeleteRecords(@, Head(labs)),
                                    !.lab[Head(labs)].assigned = FALSE]} })

\* the record Assignment.objects.get(course_lab=lab) is given the student,
\* or a record is created; then lab.assigned = True
AssignLab(db, student, lab) ==
    IF RecordsOfLabIn(db.asg, lab) > 1 THEN [db EXCEPT !.crashed = TRUE]
    ELSE [db EXCEPT !.asg = CreateRecord(DeleteRecords(@, lab), student, lab),
                    !.lab[lab].assigned = TRUE]

RECURSIVE AssignLabs(_, _, _)
\* for lab in group_labs: ...
AssignLabs(db, student, labs) ==
    IF labs = <<>> \/ db.crashed THEN db
    ELSE TheOne({ AssignLabs(d, student, Tail(labs)) :
                  d \in {AssignLab(db, student, Head(labs))} })

\* the body of `for group_name, group_labs in lab_groups.items()`
EditGroup(db, key, choice) ==
    IF choice \notin Students THEN DeleteGroup(db, GroupRows(key))
    ELSE IF ValidateIn(db.asg, choice, key).ok
      THEN AssignLabs(db, choice, GroupRows(key))
    ELSE db

RECURSIVE EditLoop(_, _, _)
EditLoop(db, keys, choice) ==
    IF keys = <<>> \/ db.crashed THEN db
    ELSE TheOne({ EditLoop(d, Tail(keys), choice) :
                  d \in {EditGroup(db, Head(keys), choice[Head(keys)])} })

\* the POST handler for one course and one form
EditCourse(course, choice) ==
    \E db \in {EditLoop([asg |-> Assignment, lab |-> Lab, crashed |-> FALSE],
                        GroupsOfCourse(course), choice)} :
        /\ Assignment' = db.asg
        /\ Lab' = db.lab
        /\ UNCHANGED <<Student, SpecialRequest, TeachingPreference,
                       AllocationWeights, runVars, fnVars, histVars>>

\* a manual edit while no call of allocation_algorithm is in progress
ManualEdit ==
    /\ pc = "idle"
    /\ \E course \in Courses :
          \E choice \in [Range(GroupsOfCourse(course)) -> EditChoices] :
              EditCourse(course, choice)

\* a manual edit served while a call of allocation_algorithm is between its
\* read of the tables and its last write (the call touches the tables at
\* no step from "lock" to "persist", so an edit there is an edit at "persist")
EditDuringRun ==
    /\ pc \in {"persist", "save"}
    /\ \E course \in Courses :
          \E choice \in [Range(GroupsOfCourse(course)) -> EditChoices] :
              EditCourse(course, choice)

\* allocation_dashboard, action == 'clear_assignments'
ClearAssignments ==
    /\ pc = "idle"
    /\ Assignment' = EmptyBag
    /\ Lab' = ClearedLabs
    /\ UNCHANGED <<Student, SpecialRequest, TeachingPreference,
                   AllocationWeights, runVars, fnVars, histVars>>

\* semester_reset, 'reset_database' confirmed
SemesterReset ==
    /\ pc = "idle"
    /\ SpecialRequest' = [s \in Students |-> NoRequest]
    /\ TeachingPreference' = <<>>
    /\ Assignment' = EmptyBag
    /\ Student' = [s \in Students |-> [Student[s] EXCEPT !.past_assignments = {}]]
    /\ UNCHANGED <<Lab, AllocationWeights, runVars, fnVars, histVars>>

\* semester_info, POST of a valid form by the student: gs_duty and lab_load
\* are stored, lab_load as 0 when gs_duty is 'False'; the courses ticked as
\* previous assignments are the ones already stored
SemesterInfo ==
    /\ pc = "idle"
    /\ \E student \in Students, gs_duty \in BOOLEAN, lab_load \in 0..MaxLoad :
          Student' = [Student EXCEPT
                         ![student].gs_duty = gs_duty,
                         ![student].lab_load = IF gs_duty THEN lab_load ELSE 0]
    /\ UNCHANGED <<Lab, SpecialRequest, TeachingPreference, AllocationWeights,
                   Assignment, runVars, fnVars, histVars>>

\* find_odd_even_pairs called on the argument list
FindPairs ==
    /\ pc = "idle"
    /\ ret_pairs' = find_odd_even_pairs(arg_course_labs)
    /\ pc' = "done"
    /\ UNCHANGED <<dbVars, clear_existing, lab_groups, students_with_capacity,
                   base_student_assignments, trial, working_lab_groups,
                   current_assignments, best_solution, new_assignments, greedy_i,
                   outcome, arg_course_labs, histVars>>

(***************************************************************************)
(* Table contents the specifications start from.                           *)
(***************************************************************************)
\* s1 ranks c1 first and c2 second; s2 ranks both courses first
Preferences ==
    << [student |-> "s1", course |-> "c1", ranking |-> 1],
       [student |-> "s1", course |-> "c2", ranking |-> 2],
       [student |-> "s2", course |-> "c1", ranking |-> 1],
       [student |-> "s2", course |-> "c2", ranking |-> 1] >>

PastAssignments == [s \in Students |-> IF s = "s1" THEN {"c1"} ELSE {"c2"}]

Weights(count) ==
    [odd_even_pair_weight |-> 2, course_variety_weight |-> 1,
     past_assignments_weight |-> 1, preference_weight |-> 1,
     workload_distribution_weight |-> 1, permutation_count |-> count]

StudentRows(duty, load) ==
    [s \in Students |-> [gs_duty |-> duty[s], lab_load |-> load[s],
                         past_assignments |-> PastAssignments[s]]]

\* the Assignment table holding one record for each lab of the domain of
\* held (a function from lab ids to students or NULL)
TableOf(held) ==
    SetToBag({[course_lab |-> l, student |-> held[l]] : l \in DOMAIN held})

\* a timetable with the `assigned` flag set on the labs that have a record
Flagged(timetable, labs) ==
    [i \in 1..Len(timetable) |-> [timetable[i] EXCEPT !.assigned = (i \in labs)]]

\* nothing of a call is in progress, nothing recorded
InitRun ==
    /\ pc = "idle"
    /\ RunIdle
    /\ outcome = "none"
    /\ before = [Assignment |-> EmptyBag, Lab |-> <<>>]
    /\ scored = <<>>
    /\ log = <<>>
    /\ arg_course_labs = <<>>
    /\ ret_pairs = <<>>

(***************************************************************************)
(* Spec: one call of allocation_algorithm on an empty Assignment table,    *)
(* for every lab_load, lock request and availability request drawn below.  *)
(***************************************************************************)
Init ==
    /\ Lab \in Timetables
    /\ Assignment = EmptyBag
    /\ \E load \in [Students -> 1..MaxLoad] :
          Student = StudentRows([s \in Students |-> TRUE], load)
    /\ \E r1 \in {NoRequest, LockRequest("c1", 1), LockRequest("c1", 2),
                  AvailabilityRequest(1, << <<"TUE", "AM">> >>)},
          r2 \in {NoRequest, AvailabilityRequest(1, <<>>),
                  AvailabilityRequest(5, << <<"MON", "AM">> >>)} :
          SpecialRequest = [s \in Students |-> IF s = "s1" THEN r1 ELSE r2]
    /\ TeachingPreference = Preferences
    /\ \E count \in 1..MaxTrials : AllocationWeights = Weights(count)
    /\ InitRun

Next == RunStep

Spec == Init /\ [][Next]_vars

(***************************************************************************)
(* SpecPre: one call of allocation_algorithm on an Assignment table that   *)
(* already holds records: at most one per lab, held by any student (on or  *)
(* off duty, whatever the lab_load) or by NULL, whole groups or single     *)
(* rows.  A student off duty has lab_load 0 (semester_info).               *)
(***************************************************************************)
\* the assignment tables drawn: records on at most two labs
PreHeld(timetable) ==
    UNION {[labs -> Holders] :
             labs \in {L \in SUBSET (1..Len(timetable)) : Cardinality(L) <= 2}}

InitPre ==
    /\ \E timetable \in Timetables : \E held \in PreHeld(timetable) :
          /\ Lab = Flagged(timetable, DOMAIN held)
          /\ Assignment = TableOf(held)
    /\ \E duty \in [Students -> BOOLEAN], load \in [Students -> 0..MaxLoad] :
          /\ \A s \in Students : ~duty[s] => load[s] = 0
          /\ Student = StudentRows(duty, load)
    /\ \E r1 \in {NoRequest, LockRequest("c1", 2)} :
          SpecialRequest = [s \in Students |-> IF s = "s1" THEN r1 ELSE NoRequest]
    /\ TeachingPreference = Preferences
    /\ AllocationWeights = Weights(1)
    /\ InitRun

NextPre == RunStep

SpecPre == InitPre /\ [][NextPre]_vars

(***************************************************************************)
(* SpecOps: calls of allocation_algorithm, manual edits, clear-all and the *)
(* semester reset, one after the other, from an empty Assignment table.    *)
(* A student off duty has lab_load 0 (semester_info).                      *)
(***************************************************************************)
InitOps ==
    /\ \E timetable \in Timetables : Lab = Flagged(timetable, {})
    /\ Assignment = EmptyBag
    /\ \E load \in [Students -> 0..MaxLoad] :
          Student = StudentRows([s \in Students |-> load[s] > 0], load)
    /\ SpecialRequest = [s \in Students |->
                           IF s = "s1" THEN NoRequest ELSE AvailabilityRequest(1, <<>>)]
    /\ TeachingPreference = Preferences
    /\ AllocationWeights = Weights(1)
    /\ InitRun

NextOps ==
    \/ RunStep
    \/ Return
    \/ ManualEdit
    \/ ClearAssignments
    \/ SemesterReset

SpecOps == InitOps /\ [][NextOps]_vars

(***************************************************************************)
(* SpecRace: one call of allocation_algorithm on an empty Assignment       *)
(* table, with manual edits served while the call is in progress.          *)
(***************************************************************************)
InitRace ==
    /\ \E timetable \in Timetables : Lab = Flagged(timetable, {})
    /\ Assignment = EmptyBag
    /\ \E load \in [Students -> 1..MaxLoad] :
          Student = StudentRows([s \in Students |-> TRUE], load)
    /\ SpecialRequest = [s \in Students |-> NoRequest]
    /\ TeachingPreference = Preferences
    /\ AllocationWeights = Weights(1)
    /\ InitRun

NextRace ==
    \/ RunStep
    \/ EditDuringRun

SpecRace == InitRace /\ [][NextRace]_vars

(***************************************************************************)
(* SpecPairs: find_odd_even_pairs on every list of distinct groups of a    *)
(* timetable.                                                              *)
(***************************************************************************)
\* the lists of distinct elements of S
ListsOf(S) == UNION {Perms(T) : T \in SUBSET S}

InitPairs ==
    /\ \E timetable \in Timetables \cup {LabsSplitWeeks} : Lab = Flagged(timetable, {})
    /\ Assignment = EmptyBag
    /\ Student = StudentRows([s \in Students |-> TRUE], [s \in Students |-> 1])
    /\ SpecialRequest = [s \in Students |-> NoRequest]
    /\ TeachingPreference = Preferences
    /\ AllocationWeights = Weights(1)
    /\ pc = "idle"
    /\ RunIdle
    /\ outcome = "none"
    /\ before = [Assignment |-> EmptyBag, Lab |-> <<>>]
    /\ scored = <<>>
    /\ log = <<>>
    /\ arg_course_labs \in ListsOf(AllKeys)
    /\ ret_pairs = <<>>

NextPairs == FindPairs

SpecPairs == InitPairs /\ [][NextPairs]_vars

(***************************************************************************)
(* SpecDuty: calls of allocation_algorithm in sequence, the students        *)
(* changing their semester information between calls.                       *)
(***************************************************************************)
InitDuty ==
    /\ \E timetable \in Timetables : Lab = Flagged(timetable, {})
    /\ Assignment = EmptyBag
    /\ \E load \in [Students -> 0..1] :
          Student = StudentRows([s \in Students |-> load[s] > 0], load)
    /\ SpecialRequest = [s \in Students |-> NoRequest]
    /\ TeachingPreference = Preferences
    /\ AllocationWeights = Weights(1)
    /\ InitRun

NextDuty ==
    \/ RunStep
    \/ Return
    \/ SemesterInfo

SpecDuty == InitDuty /\ [][NextDuty]_vars

(***************************************************************************)
(* Properties.                                                             *)
(***************************************************************************)
\* the labs a student has a record for
HeldLabs(student) == {l \in LabIds : Records(student, l) > 0}

\* two rows of the groups of a list clash; same_unit admits two rows of
\* one group
GroupsClash(groups, same_unit) ==
    \E i \in 1..Len(groups), j \in 1..Len(groups) :
        \E a \in Range(GroupRows(groups[i])), b \in Range(GroupRows(groups[j])) :
            /\ a # b
            /\ same_unit \/ i # j
            /\ RowsClash(Lab[a], Lab[b])

\* C1: in the solution of every trial and in the tables after the call, the
\* rows assigned to a person (over all the person's groups) number at most
\* the person's lab_load.
C1_RowCountWithinLoad ==
    /\ pc = "score" =>
          \A s \in Range(students_with_capacity) :
              Len(RowsOfGroups(current_assignments[s])) <= Student[s].lab_load
    /\ (pc = "done" /\ outcome = "ok") =>
          \A s \in Range(students_with_capacity) :
              Cardinality(HeldLabs(s)) <= Student[s].lab_load

\* C2: a call with clear_existing = False that began with at most one
\* record per lab ends with at most one record per lab.
C2_OneRecordPerLab ==
    (pc = "done" /\ outcome = "ok" /\ ~clear_existing
        /\ \A l \in LabIds : RecordsOfLabIn(before.Assignment, l) <= 1)
    => \A l \in LabIds : RecordsOfLab(l) <= 1

\* C3 (as stated): for a person whose groups held before the call are free
\* of clashes, no two rows of the person's solution clash, be they rows of
\* one group or of two.
C3_NoClashAmongRows ==
    pc \in {"greedy", "score"} =>
        \A s \in Range(students_with_capacity) :
            ~GroupsClash(base_student_assignments[s], TRUE)
            => ~GroupsClash(current_assignments[s], TRUE)

\* C3 (amended): for a person whose groups held before the call are free of
\* clashes between groups, no two rows of two different groups of the
\* person's solution clash, at every step of a trial.
C3_NoClashBetweenGroups ==
    pc \in {"greedy", "score"} =>
        \A s \in Range(students_with_capacity) :
            ~GroupsClash(base_student_assignments[s], FALSE)
            => ~GroupsClash(current_assignments[s], FALSE)

\* a trial gave a second group to a person who held one before the call,
\* and passed over a group still available although the person had load
\* left for it (it clashes with a group the person holds)
C3_Witness ==
    /\ pc = "score"
    /\ \E s \in Range(students_with_capacity) :
          /\ base_student_assignments[s] # <<>>
          /\ ~GroupsClash(base_student_assignments[s], FALSE)
          /\ Len(current_assignments[s]) > Len(base_student_assignments[s])
          /\ \E key \in Range(working_lab_groups) :
                /\ ~ExceedsLoad(s, key, current_assignments)
                /\ HasTimeClash(s, key, current_assignments)

\* every row of the group has one record, all of one person, or no row of
\* the group has a record
Atomic(key) ==
    \/ \A l \in Range(GroupRows(key)) : RecordsOfLab(l) = 0
    \/ \E p \in Holders : \A l \in Range(GroupRows(key)) :
          RecordsOfLab(l) = 1 /\ Records(p, l) = 1

\* C4: after any sequence of calls of allocation_algorithm, manual edits
\* and clear-all from an empty Assignment table, every group is assigned
\* whole to one person or not at all.
C4_UnitAtomicity ==
    pc \in {"idle", "done"} => \A key \in AllKeys : Atomic(key)

\* a call has ended having given a group of two rows, whole, to one
\* student, while another group of two rows, assigned before the call
\* began, is held whole by the other student
C4_Witness ==
    /\ pc = "done"
    /\ outcome = "ok"
    /\ \E k1 \in AllKeys, k2 \in AllKeys :
          /\ Len(GroupRows(k1)) = 2
          /\ Len(GroupRows(k2)) = 2
          /\ \A l \in Range(GroupRows(k1)) :
                Records("s1", l) = 1 /\ RecordsOfLabIn(before.Assignment, l) = 0
          /\ \A l \in Range(GroupRows(k2)) :
                Records("s2", l) = 1 /\ RecordsIn(before.Assignment, "s2", l) = 1

\* C5: a call that ends with a setup error leaves the Assignment records
\* and the assigned flags as they were when it began.
C5_SetupErrorChangesNothing ==
    (pc = "done" /\ outcome \in {"no_eligible", "no_capacity"})
    => (Assignment = before.Assignment /\ Lab = before.Lab)

\* C6: between operations, a lab's assigned flag is set exactly when the
\* lab has an Assignment record.
C6_FlagIffRecord ==
    pc \in {"idle", "done"} =>
        \A l \in LabIds : Lab[l].assigned <=> (RecordsOfLab(l) > 0)

\* C7: the pre-pass gives the requesting person at most lab_groups_locked
\* groups of the locked course.
C7_LockedCountRespected ==
    (pc = "greedy" /\ greedy_i = 1) =>
        \A s \in Range(students_with_capacity) :
            (SpecialRequest[s].exists /\ SpecialRequest[s].course_lock_approved)
            => Cardinality({k \in Range(current_assignments[s]) :
                               /\ k[1] = SpecialRequest[s].course_lock
                               /\ k \notin Range(base_student_assignments[s])})
                  <= SpecialRequest[s].lab_groups_locked

\* C8: no group is in two pairs of the list find_odd_even_pairs returns.
C8_GroupInOnePair ==
    pc = "done" =>
        \A i \in 1..Len(ret_pairs), j \in 1..Len(ret_pairs) :
            i # j => {ret_pairs[i][1], ret_pairs[i][2]}
                       \cap {ret_pairs[j][1], ret_pairs[j][2]} = {}

\* the person's records grouped into groups, the candidate left out
PersistedGroups(student, labs) ==
    LET Held(key) == key # labs /\ \E l \in Range(GroupRows(key)) : Records(student, l) > 0
    IN  [s \in Students |-> IF s = student
                              THEN SelectSeq(group_labs_by_course_and_group, Held)
                            ELSE <<>>]

\* C9: for every person and candidate group, validate_group_assignment
\* accepts exactly when violates_constraints, given the person's persisted
\* groups other than the candidate, returns False.
C9_ValidatorAgreesWithChecker ==
    pc = "idle" =>
        \A s \in Students, key \in AllKeys :
            validate_group_assignment(s, key).ok
            <=> ~violates_constraints(s, key, PersistedGroups(s, key))

\* C10: with manual edits served while a call is in progress, no lab ever
\* has two Assignment records.
C10_NoDuplicateUnderInterleaving ==
    \A l \in LabIds : RecordsOfLab(l) <= 1

\* the days of the rows of a list of groups
DaysOf(groups) == {Lab[l].day : l \in Range(RowsOfGroups(groups))}

\* C11: in every trial's solution, a person with an approved availability
\* request whose groups held before the call use at most max_teaching_days
\* days has rows on at most max_teaching_days days; and no candidate is
\* refused on teaching days for a person without an approved request.
C11_TeachingDaysWithinMax ==
    /\ pc = "score" =>
          \A s \in Range(students_with_capacity) :
              (/\ HasAvailabilityRequest(s)
               /\ Cardinality(DaysOf(base_student_assignments[s]))
                     <= SpecialRequest[s].max_teaching_days)
              => Cardinality(DaysOf(current_assignments[s]))
                     <= SpecialRequest[s].max_teaching_days
    /\ \A s \in Students, key \in AllKeys :
          ~HasAvailabilityRequest(s)
          => ~ExceedsTeachingDays(s, key, current_assignments)

\* the <<day, AM or PM>> of a row
SlotOfRow(l) == <<Lab[l].day, IF StartHour(Lab[l].time) < 12 THEN "AM" ELSE "PM">>

\* C12: no group given to a person by a trial has a row in one of the
\* unavailable slots of the person's approved availability request.
C12_NoRowInUnavailableSlot ==
    pc \in {"greedy", "score"} =>
        \A s \in Range(students_with_capacity) :
            HasAvailabilityRequest(s) =>
                \A i \in 1..Len(current_assignments[s]) :
                    current_assignments[s][i] \notin Range(base_student_assignments[s])
                    => \A l \in Range(GroupRows(current_assignments[s][i])) :
                          SlotOfRow(l) \notin Range(SpecialRequest[s].unavailable_slots)

\* the start and the end of a Lab.time in minutes after midnight
StartMinute(time_str) == parse_time(time_str)[1][1] * 60 + parse_time(time_str)[1][2]
EndMinute(time_str) == parse_time(time_str)[2][1] * 60 + parse_time(time_str)[2][2]

\* some row of the candidate and some row of a group the person holds are
\* on the same day, in overlapping half-open ranges of minutes, with a
\* week in common
ClashByMinutes(student, key, student_assignments) ==
    \E a \in Range(GroupRows(key)) :
        \E b \in Range(RowsOfGroups(student_assignments[student])) :
            /\ Lab[a].day = Lab[b].day
            /\ StartMinute(Lab[a].time) < EndMinute(Lab[b].time)
            /\ EndMinute(Lab[a].time) > StartMinute(Lab[b].time)
            /\ Range(Lab[a].teaching_week) \cap Range(Lab[b].teaching_week) # {}

\* C13: for a person below lab_load and without an approved availability
\* request, violates_constraints returns True for an available group
\* exactly when a row of the group clashes with a row the person holds.
C13_ViolatesIffClash ==
    pc \in {"greedy", "score"} =>
        \A s \in Range(students_with_capacity), key \in Range(working_lab_groups) :
            (~student_at_max_load(s, current_assignments) /\ ~HasAvailabilityRequest(s))
            => (violates_constraints(s, key, current_assignments)
                  <=> ClashByMinutes(s, key, current_assignments))

\* the Assignment table a call reads: the table at entry, or nothing when
\* the call cleared it first
TableRead == IF clear_existing THEN EmptyBag ELSE before.Assignment

\* the number of groups in which the student has a record of the table
UnitsHeldIn(asg, student) ==
    Cardinality({key \in AllKeys :
                    \E l \in Range(GroupRows(key)) : RecordsIn(asg, student, l) > 0})

NoOneOnDuty == \A s \in Students : ~Student[s].gs_duty

EveryoneFull ==
    \A s \in Students :
        Student[s].gs_duty => UnitsHeldIn(TableRead, s) >= Student[s].lab_load

\* C14: a call ends with the no-eligible-students error exactly when no
\* student has gs_duty; otherwise with the no-capacity error exactly when
\* every gs_duty student holds at least lab_load groups in the table the
\* call reads; in every other case the setup raises no error.
C14_SetupErrors ==
    pc # "idle" =>
        /\ (outcome = "no_eligible") <=> NoOneOnDuty
        /\ (outcome = "no_capacity") <=> (~NoOneOnDuty /\ EveryoneFull)

\* the lowest score among the trials of the call
MinScore ==
    CHOOSE m \in {scored[i].penalty_score : i \in 1..Len(scored)} :
        \A i \in 1..Len(scored) : m <= scored[i].penalty_score

\* the earliest trial of the call with the lowest score
EarliestBest ==
    CHOOSE i \in 1..Len(scored) :
        /\ scored[i].penalty_score = MinScore
        /\ \A j \in 1..(i - 1) : scored[j].penalty_score > MinScore

\* the number of records of (student, lab) the call has created
Created(student, lab) == Records(student, lab) - RecordsIn(TableRead, student, lab)

\* C15: when a call with permutation_count >= 1 has completed, the records
\* it created are the (student, lab) pairs of the earliest trial whose
\* score is the lowest of all the trials of the call, less the pairs that
\* had a record already, and the score it returns is that lowest score
\* rounded.
C15_BestTrialPersisted ==
    (pc = "done" /\ outcome = "ok" /\ AllocationWeights.permutation_count >= 1) =>
        /\ Len(scored) = AllocationWeights.permutation_count
        /\ stats_penalty_score = RoundTenths(MinScore)
        /\ \A s \in Students, l \in LabIds :
              Created(s, l) =
                 IF /\ <<s, l>> \in Range(scored[EarliestBest].assignments)
                    /\ RecordsIn(TableRead, s, l) = 0
                   THEN 1 ELSE 0

\* a call of two trials has completed; the two trials scored the same with
\* different solutions, and a pair that only the first trial had is recorded
C15_Witness ==
    /\ pc = "done"
    /\ outcome = "ok"
    /\ Len(scored) = 2
    /\ scored[2].penalty_score = scored[1].penalty_score
    /\ \E a \in Range(scored[1].assignments) :
          /\ a \notin Range(scored[2].assignments)
          /\ Records(a[1], a[2]) = 1

\* C16: a call creates no record for a student who is off duty, or who
\* held at least lab_load groups in the table the call read.
C16_NoRecordForExcluded ==
    pc # "idle" =>
        \A s \in Students :
            (~Student[s].gs_duty \/ UnitsHeldIn(TableRead, s) >= Student[s].lab_load)
            => \A l \in LabIds : Created(s, l) = 0

\* the student holding the group in the trial's solution ("none" when the
\* group is not taken)
HolderOf(key) ==
    IF \E s \in Students : key \in Range(current_assignments[s])
      THEN CHOOSE s \in Students : key \in Range(current_assignments[s])
    ELSE "none"

\* two groups with rows at one day and time string, one row's weeks all
\* odd and the other's all even
MismatchedAtOneSlot(u, v) ==
    \E a \in Range(GroupRows(u)), b \in Range(GroupRows(v)) :
        /\ Lab[a].day = Lab[b].day
        /\ Lab[a].time = Lab[b].time
        /\ \/ AllOdd(Lab[a].teaching_week) /\ AllEven(Lab[b].teaching_week)
           \/ AllEven(Lab[a].teaching_week) /\ AllOdd(Lab[b].teaching_week)

\* the sets {u, v} of two groups held by different students in the
\* trial's solution, at one slot with mismatched parity
SplitPairs ==
    {p \in SUBSET AllKeys :
        /\ Cardinality(p) = 2
        /\ \E u \in p, v \in p :
              /\ u # v
              /\ HolderOf(u) # "none" /\ HolderOf(v) # "none"
              /\ HolderOf(u) # HolderOf(v)
              /\ MismatchedAtOneSlot(u, v)}

\* C17: the odd/even split penalty of a trial's solution is the number of
\* pairs {u, v} of distinct groups at one (day, time) slot, held by
\* different students, one with odd weeks only and the other with even
\* weeks only: each pair counts once.
C17_OddEvenCountsPairsOnce ==
    pc = "score" =>
        calculate_odd_even_pair_penalty(
            FlatAssignments(AssignmentKeys, current_assignments))
          = Cardinality(SplitPairs)

\* the (student, course) pairs of the trial's solution: the student holds a
\* group with a row of the course
CoursesTaken ==
    {sc \in Students \X Courses :
        \E key \in Range(current_assignments[sc[1]]) :
            \E l \in Range(GroupRows(key)) : Lab[l].code = sc[2]}

\* the rankings the student has given the course
RanksGiven(student, course) ==
    {TeachingPreference[i].ranking : i \in
        {j \in 1..Len(TeachingPreference) :
            /\ TeachingPreference[j].student = student
            /\ TeachingPreference[j].course = course}}

\* rank - 1 for a ranked course, 16 for a course not ranked
PreferenceTerm(student, course) ==
    IF RanksGiven(student, course) = {} THEN 16
    ELSE (CHOOSE r \in RanksGiven(student, course) : TRUE) - 1

\* C18: the preference penalty of a trial's solution is the sum, over the
\* students with a group and the distinct courses of their groups, of
\* rank - 1 when the student ranked the course and of 16 when not.
C18_PreferencePenalty ==
    pc = "score" =>
        calculate_preference_penalty(current_assignments)
          = SumSeq([i \in 1..Cardinality(CoursesTaken) |->
                      PreferenceTerm(SeqOfSet(CoursesTaken)[i][1],
                                     SeqOfSet(CoursesTaken)[i][2])])

\* a trial's solution, found after the preferences were deleted, has a
\* student with groups of a course that is not ranked, and the penalty is
\* 16 for each (student, course) of the solution
C18_Witness ==
    /\ pc = "score"
    /\ TeachingPreference = <<>>
    /\ CoursesTaken # {}
    /\ calculate_preference_penalty(current_assignments) = 16 * Cardinality(CoursesTaken)

\* the weeks of a group: the weeks of all its rows
WeekSetOf(key) == UNION {Range(Lab[l].teaching_week) : l \in Range(GroupRows(key))}
PureOdd(key)  == \A w \in WeekSetOf(key) : w % 2 = 1
PureEven(key) == \A w \in WeekSetOf(key) : w % 2 = 0

\* the (day, time) slots of the rows of a group
SlotsOf(key) == {<<Lab[l].day, Lab[l].time>> : l \in Range(GroupRows(key))}

\* the groups in the pairs find_odd_even_pairs returned
InSomePair == UNION {{ret_pairs[i][1], ret_pairs[i][2]} : i \in 1..Len(ret_pairs)}

\* C19: find_odd_even_pairs returns a pair (o, e) only if the weeks of o
\* are all odd, the weeks of e all even, and o and e have the same day and
\* time; a group with odd and even weeks is in no pair; and every group
\* with odd weeks only, for which the list holds a group with even weeks
\* only in the same day and time, is in a pair.
C19_PairsSoundAndComplete ==
    pc = "done" =>
        /\ \A i \in 1..Len(ret_pairs) :
              /\ PureOdd(ret_pairs[i][1])
              /\ PureEven(ret_pairs[i][2])
              /\ SlotsOf(ret_pairs[i][1]) = SlotsOf(ret_pairs[i][2])
        /\ \A key \in Range(arg_course_labs) :
              (~PureOdd(key) /\ ~PureEven(key)) => key \notin InSomePair
        /\ \A o \in Range(arg_course_labs) :
              (/\ PureOdd(o)
               /\ \E e \in Range(arg_course_labs) :
                     PureEven(e) /\ SlotsOf(e) = SlotsOf(o))
              => \E i \in 1..Len(ret_pairs) : ret_pairs[i][1] = o

\* the values of past_assignments_weight compared (an IntegerField)
PastWeights == (0 - MaxPastWeight)..MaxPastWeight

\* the score of the trial's solution with past_assignments_weight set to w
\* and the other weights as they are
ScoreAt(w) ==
    calculate_penalty_score(FlatAssignments(AssignmentKeys, current_assignments),
                            current_assignments, students_with_capacity,
                            [AllocationWeights EXCEPT !.past_assignments_weight = w])

\* C20: for a trial's solution and the other four weights as they are, the
\* score with a larger past_assignments_weight is never larger.
C20_ScoreMonotoneInPastWeight ==
    pc = "score" =>
        \A score \in {[w \in PastWeights |-> ScoreAt(w)]} :
            \A w1 \in PastWeights, w2 \in PastWeights :
                w2 > w1 => score[w2] <= score[w1]

\* a trial's solution gives a student a course of the student's past
\* assignments, and the score falls when past_assignments_weight is raised
C20_Witness ==
    /\ pc = "score"
    /\ calculate_past_assignments_bonus(current_assignments) > 0
    /\ ScoreAt(AllocationWeights.past_assignments_weight + 1)
         < ScoreAt(AllocationWeights.past_assignments_weight)

\* C21: in the pre-pass and in every phase of greedy_allocation a pair is
\* attempted for a student only when lab_load minus the number of groups
\* the student holds is at least 2, and no pair attempt leaves the student
\* with more groups than lab_load.
C21_PairOnlyWithTwoFree ==
    \A i \in 1..Len(log) :
        log[i].kind = "pair" =>
            /\ log[i].free >= 2
            /\ Len(log[i].sa1[log[i].student]) <= Student[log[i].student].lab_load

\* the groups an attempt of the log gave the student
Gained(e) ==
    IF Len(e.sa1[e.student]) > Len(e.sa0[e.student]) THEN Range(e.keys) ELSE {}

\* the order of the phases of greedy_allocation for one student
PhaseNo(e) ==
    IF e.phase = "continuity" THEN 0
    ELSE IF e.phase = "preference" THEN e.rank
    ELSE 9

RemainingAtGreedy(s) == Student[s].lab_load - Len(current_assignments[s])

\* C23: in every trial greedy_allocation takes the students with an
\* approved availability request before the others, and within each of the
\* two classes in non-increasing order of lab_load minus the groups held
\* from pre-existing records and from the pre-pass.
C23_ProcessingOrder ==
    (pc = "greedy" /\ greedy_i = 1) =>
        \A i \in 1..Len(students_with_capacity), j \in 1..Len(students_with_capacity) :
            i < j =>
               LET a == students_with_capacity[i]
                   b == students_with_capacity[j]
               IN  /\ HasAvailabilityRequest(b) => HasAvailabilityRequest(a)
                   /\ (HasAvailabilityRequest(a) <=> HasAvailabilityRequest(b))
                      => RemainingAtGreedy(a) >= RemainingAtGreedy(b)

\* C24: after a pair attempt, in the pre-pass or in a phase of
\* greedy_allocation, either both groups of the pair are at the end of the
\* student's list and out of the pool, or the student's list is what it
\* was and the pool holds the same groups; the other students' lists are
\* what they were.
C24_PairAllOrNothing ==
    \A i \in 1..Len(log) :
        log[i].kind = "pair" =>
            LET e == log[i]
            IN  /\ \A s \in Students \ {e.student} : e.sa1[s] = e.sa0[s]
                /\ \/ /\ e.sa1[e.student] = e.sa0[e.student] \o e.keys
                      /\ Range(e.avail1) = Range(e.avail0) \ Range(e.keys)
                      /\ Len(e.avail1) = Len(e.avail0) - 2
                   \/ /\ e.sa1[e.student] = e.sa0[e.student]
                      /\ Range(e.avail1) = Range(e.avail0)
                      /\ Len(e.avail1) = Len(e.avail0)

\* a pair attempt took the first group and put it back: the student's list
\* is what it was and the first group has moved to the end of the pool
C24_Witness ==
    \E i \in 1..Len(log) :
        /\ log[i].kind = "pair"
        /\ log[i].sa1 = log[i].sa0
        /\ log[i].avail1 # log[i].avail0
        /\ log[i].avail1[Len(log[i].avail1)] = log[i].keys[1]

C26_GroupCountWithinLoad ==
    /\ pc \in {"greedy", "score"} =>
          \A s \in Range(students_with_capacity) :
              Len(current_assignments[s]) <= Student[s].lab_load
    /\ \A i \in 1..Len(log) : \A s \in Range(students_with_capacity) :
          /\ Len(log[i].sa0[s]) <= Student[s].lab_load
          /\ Len(log[i].sa1[s]) <= Student[s].lab_load
    \* between the two halves of a pair attempt that took the first group
    /\ \A i \in 1..Len(log) :
          (log[i].kind = "pair" /\ log[i].avail1 # log[i].avail0)
          => Len(log[i].sa0[log[i].student]) + 1 <= Student[log[i].student].lab_load

\* a trial has ended with a student holding exactly lab_load groups, two
\* at least, the last of them given by an attempt of the trial
C26_Witness ==
    /\ pc = "score"
    /\ \E s \in Range(students_with_capacity) :
          /\ Student[s].lab_load >= 2
          /\ Len(current_assignments[s]) = Student[s].lab_load
          /\ \E i \in 1..Len(log) :
                /\ log[i].student = s
                /\ Len(log[i].sa1[s]) = Student[s].lab_load
                /\ Len(log[i].sa0[s]) < Student[s].lab_load

RECURSIVE ConcatAll(_)
\* the sequences of a sequence, one after the other
ConcatAll(seqs) == IF seqs = <<>> THEN <<>> ELSE Head(seqs) \o ConcatAll(Tail(seqs))

\* the pool followed by the lists of all students
Everywhere(avail, sa) ==
    avail \o ConcatAll([i \in 1..Len(StudentOrder) |-> sa[StudentOrder[i]]])

NoDuplicates(seq) == \A i \in 1..Len(seq), j \in 1..Len(seq) : i # j => seq[i] # seq[j]

\* C27: at every step of a trial a group occurs at most once in the pool
\* and the students' lists taken together, also when find_odd_even_pairs
\* has put a group in several pairs and after a pair was rolled back.
C27_GroupOccursOnce ==
    /\ pc \in {"greedy", "score"} =>
          NoDuplicates(Everywhere(working_lab_groups, current_assignments))
    /\ \A i \in 1..Len(log) :
          /\ NoDuplicates(Everywhere(log[i].avail0, log[i].sa0))
          /\ NoDuplicates(Everywhere(log[i].avail1, log[i].sa1))

\* two pair attempts for one student had the same second group; the first
\* attempt was rolled back
C27_Witness ==
    \E i \in 1..Len(log), j \in 1..Len(log) :
        /\ i < j
        /\ log[i].kind = "pair" /\ log[j].kind = "pair"
        /\ log[i].student = log[j].student
        /\ log[i].keys[2] = log[j].keys[2]
        /\ log[i].keys[1] # log[j].keys[1]
        /\ log[i].sa1 = log[i].sa0
        /\ log[i].avail1 # log[i].avail0

\* the groups a trial has given the student so far
GivenInTrial(s) ==
    SubSeq(current_assignments[s], Len(base_student_assignments[s]) + 1,
           Len(current_assignments[s]))

\* the trial's pool and lists are what a trial that began with the groups
\* of lab_groups and with base_student_assignments has made of them
FromTheBase ==
    /\ \A s \in Students :
          /\ Len(current_assignments[s]) >= Len(base_student_assignments[s])
          /\ SubSeq(current_assignments[s], 1, Len(base_student_assignments[s]))
               = base_student_assignments[s]
    /\ Range(working_lab_groups) \cup UNION {Range(GivenInTrial(s)) : s \in Students}
         = Range(lab_groups)
    /\ Len(working_lab_groups)
         + SumSeq([i \in 1..Len(StudentOrder) |-> Len(GivenInTrial(StudentOrder[i]))])
         = Len(lab_groups)

\* between the trials only the order of lab_groups changes
OnlyOrderChanges ==
    (pc \in {"lock", "greedy", "score"} /\ pc' \in {"lock", "greedy", "score", "persist"})
    => /\ base_student_assignments' = base_student_assignments
       /\ Range(lab_groups') = Range(lab_groups)
       /\ Len(lab_groups') = Len(lab_groups)

\* C28: every trial of a call starts from the same groups in the pool and
\* the same base lists, computed before the trials; what a trial removed
\* or assigned is not there in a later trial, and only the order of the
\* pool differs between the starts of two trials.
C28_TrialsIndependent ==
    /\ [](pc \in {"greedy", "score"} => FromTheBase)
    /\ [][OnlyOrderChanges]_vars

\* the second trial of a call is at its end, it has given out groups, and
\* so had the first
C28_Witness ==
    /\ pc = "score"
    /\ trial = 1
    /\ scored[1].assignments # <<>>
    /\ \E s \in Students : GivenInTrial(s) # <<>>

\* C29: a call that does not clear only adds records: every record of the
\* table at entry is still there, with its student and its lab, and no
\* lab's `assigned` flag goes from true to false.
C29_OnlyAdds ==
    (pc # "idle" /\ ~clear_existing) =>
        /\ \A p \in Holders, l \in LabIds :
              Records(p, l) >= RecordsIn(before.Assignment, p, l)
        /\ \A l \in LabIds : before.Lab[l].assigned => Lab[l].assigned

\* a call that did not clear has completed: the table had records at entry,
\* one of them on a lab flagged `assigned`, and the call has added a record
C29_Witness ==
    /\ pc = "done"
    /\ outcome = "ok"
    /\ ~clear_existing
    /\ \E p \in Holders, l \in LabIds :
          RecordsIn(before.Assignment, p, l) > 0 /\ before.Lab[l].assigned
    /\ \E s \in Students, l \in LabIds : Created(s, l) > 0

(***************************************************************************)
(* views.py: calculate_current_penalty_score, the score the dashboard      *)
(* recomputes from the Assignment table.                                   *)
(***************************************************************************)
\* Assignment.objects.all(): one <<student, lab>> per record.  The model
\* keeps no record ids, so the rows are listed by lab and then by holder.
AssignmentRows ==
    ConcatAll([l \in 1..Len(Lab) |->
                 ConcatAll([h \in 1..Len(HolderOrder) |->
                              [k \in 1..Records(HolderOrder[h], l) |->
                                 <<HolderOrder[h], l>>]])])

RECURSIVE GroupsOfRows(_, _, _)
\* lines 1307-1320 for one student: a group is appended at the first record
\* of the student that lies in it
GroupsOfRows(student, rows, groups) ==
    IF rows = <<>> THEN groups
    ELSE TheOne({ GroupsOfRows(student, Tail(rows), next) :
                  next \in { IF /\ Head(rows)[1] = student
                                /\ KeyOf(Head(rows)[2]) \notin Range(groups)
                               THEN Append(groups, KeyOf(Head(rows)[2]))
                             ELSE groups } })

\* lines 1294-1331, the result in tenths.  `students` is the set of the
\* students that hold a record; a record without a student, or a holder
\* whose lab_load is 0, raises inside calculate_penalty_score and the
\* except clause turns that into 0.
calculate_current_penalty_score(weights) ==
    LET flat_assignments    == AssignmentRows
        assigned_students   == {flat_assignments[i][1] : i \in 1..Len(flat_assignments)}
        student_assignments == [s \in Students |-> GroupsOfRows(s, flat_assignments, <<>>)]
        Assigned(s)         == s \in assigned_students
        students            == SelectSeq(StudentOrder, Assigned)
        raises              == \/ NoStudent \in assigned_students
                               \/ \E s \in assigned_students \ {NoStudent} :
                                     Student[s].lab_load = 0
    IN  IF flat_assignments = <<>> THEN 0
        ELSE IF raises THEN 0
        ELSE RoundTenths(calculate_penalty_score(flat_assignments, student_assignments,
                                                 students, weights))

\* C30: when a call has returned its statistics, the score recomputed from
\* the table with the same weights equals the score the call reported.
C30_RecomputedScoreAgrees ==
    (pc = "done" /\ outcome = "ok") =>
        calculate_current_penalty_score(AllocationWeights) = stats_penalty_score

====
